---- MODULE Spec2Model ----
(***************************************************************************)
(* Model of pyfess/models/models.py: the class flywheel, its constructor   *)
(* __init__ and its two derivative functions lode and nlode.               *)
(*                                                                         *)
(* Numbers.  The program computes in IEEE floating point.  Matrix and      *)
(* vector inputs are integer valued here; a computed float is the pair     *)
(* <<n, d>> standing for n/d in lowest terms with d > 0, and the three     *)
(* non-finite floats are <<1, 0>> (inf), <<-1, 0>> (-inf) and <<0, 0>>     *)
(* (nan).  Rounding is not modelled: finite results are exact.             *)
(*                                                                         *)
(* Arrays.  A numpy array is [shape |-> <<..>>, data |-> f]; the data of a *)
(* 1-D array is indexed by 0..n-1, of a 2-D array by <<i, j>>.             *)
(***************************************************************************)
EXTENDS Integers, Sequences, FiniteSets, TLC

VARIABLES
    pc,      \* "start", "constructed" (an object exists) or "failed" (__init__ raised)
    args,    \* the arguments __init__ was called with
    self,    \* the object's attribute dictionary (a record: DOMAIN self = set attributes)
    exc,     \* the exception raised by the last operation, "" for none
    f_default, \* the array built once for nlode's default argument f
    call,    \* the last derivative call: its arguments, result and the caller's arrays afterwards
    first    \* the first derivative call made on the object (history)

vars == <<pc, args, self, exc, f_default, call, first>>

----------------------------------------------------------------------------
(* Bounds of the explored inputs *)

\* supplied spin speeds range over -1..MaxSpin
MaxSpin == 2
\* entries of the state vectors handed to lode and nlode range over -1..MaxState
MaxState == 1
\* entries of the force vectors handed to nlode range over 0..MaxForce
MaxForce == 1

----------------------------------------------------------------------------
(* Floats *)

Abs(n) == IF n < 0 THEN -n ELSE n

Sgn(n) == IF n < 0 THEN -1 ELSE IF n = 0 THEN 0 ELSE 1

RECURSIVE GCD(_, _)
GCD(a, b) == IF b = 0 THEN a ELSE GCD(b, a % b)

\* the float n/d; n/0 is inf, -inf or nan by the sign of n
Flt(n, d) ==
    IF d = 0 THEN <<Sgn(n), 0>>
    ELSE LET g == GCD(Abs(n), Abs(d))
         IN  <<(Sgn(d) * n) \div g, Abs(d) \div g>>

FInt(n) == <<n, 1>>

IsFinite(q) == q[2] # 0

\* IEEE product: inf * 0 = nan, nan * anything = nan
FMul(p, q) == Flt(p[1] * q[1], p[2] * q[2])

\* IEEE sum: inf + -inf = nan, nan + anything = nan
FAdd(p, q) ==
    IF IsFinite(p) /\ IsFinite(q) THEN Flt(p[1] * q[2] + q[1] * p[2], p[2] * q[2])
    ELSE IF IsFinite(q) THEN p
    ELSE IF IsFinite(p) THEN q
    ELSE IF p = q THEN p ELSE <<0, 0>>

FNeg(p) == <<-p[1], p[2]>>

FSub(p, q) == FAdd(p, FNeg(q))

\* numpy true division n / m of two finite numbers; m = 0 warns and gives inf or nan
FDiv(p, q) == Flt(p[1] * q[2], p[2] * q[1])

----------------------------------------------------------------------------
(* Arrays *)

None == [none |-> TRUE]

\* np.zeros((r, c))
zeros2(r, c) == [shape |-> <<r, c>>, data |-> [ij \in (0..r-1) \X (0..c-1) |-> 0]]

\* np.zeros((n,))
zeros1(n) == [shape |-> <<n>>, data |-> [i \in 0..n-1 |-> 0]]

\* np.diag([v] * n)
diag(v, n) ==
    [shape |-> <<n, n>>,
     data |-> [ij \in (0..n-1) \X (0..n-1) |-> IF ij[1] = ij[2] THEN v ELSE 0]]

\* unary minus on an array
neg(m) == [shape |-> m.shape, data |-> [k \in DOMAIN m.data |-> -m.data[k]]]

\* len(a): the first dimension
len(a) == a.shape[1]

\* numpy can broadcast a source of this shape into a 5x5 slice
Broadcasts(shape, r, c) ==
    /\ Len(shape) = 2
    /\ shape[1] \in {1, r}
    /\ shape[2] \in {1, c}

\* dst[r0:r0+5, c0:c0+5] = src, for a source that broadcasts
setblock(dst, r0, c0, src) ==
    [shape |-> dst.shape,
     data |-> [ij \in DOMAIN dst.data |->
        IF ij[1] \in r0..r0+4 /\ ij[2] \in c0..c0+4
        THEN src.data[<<IF src.shape[1] = 1 THEN 0 ELSE ij[1] - r0,
                        IF src.shape[2] = 1 THEN 0 ELSE ij[2] - c0>>]
        ELSE dst.data[ij]]]

----------------------------------------------------------------------------
(* flywheel.__init__ *)

NoAttrs == [a \in {} |-> 0]

\* Python truth value of x0, as `not x0` asks for it: "error" stands for numpy's
\* ValueError on an array with more than one element
truth_x0(x0) ==
    IF x0 = None THEN "false"
    ELSE IF len(x0) > 1 THEN "error"
    ELSE IF x0.data[0] # 0 THEN "true" ELSE "false"

\* Python truth value of w0
truth_w0(w0) == IF w0 = None THEN FALSE ELSE w0.val # 0

\* init_matrices with the damping and inertia blocks of A in each other's place
init_matrices_swapped(K, C, M) ==
    IF K.shape # C.shape \/ (K.shape # M.shape /\ M.shape # <<5, 5>>)
    THEN [self |-> NoAttrs, exc |-> ""]
    ELSE IF ~Broadcasts(C.shape, 5, 5) \/ ~Broadcasts(M.shape, 5, 5)
            \/ ~Broadcasts(K.shape, 5, 5)
    THEN [self |-> NoAttrs, exc |-> "ValueError: could not broadcast"]
    ELSE LET Eye == diag(1, 5)
             A1  == setblock(zeros2(10, 10), 0, 0, M)
             A2  == setblock(A1, 5, 0, C)
             A3  == setblock(A2, 0, 5, Eye)
             B1  == setblock(zeros2(10, 10), 0, 0, K)
             B2  == setblock(B1, 5, 5, neg(Eye))
         IN  [self |-> [K |-> K, C |-> C, M |-> M, A |-> A3, B |-> B2], exc |-> ""]

\* lines 52-67: the shape test and the assembly of A and B
init_matrices(K, C, M) ==
    IF K.shape # C.shape \/ (K.shape # M.shape /\ M.shape # <<5, 5>>)
    THEN \* the ValueError is built and dropped: nothing is raised, nothing is set
         [self |-> NoAttrs, exc |-> ""]
    ELSE IF ~Broadcasts(C.shape, 5, 5) \/ ~Broadcasts(M.shape, 5, 5)
            \/ ~Broadcasts(K.shape, 5, 5)
    THEN [self |-> NoAttrs, exc |-> "ValueError: could not broadcast"]
    ELSE LET Eye == diag(1, 5)
             A0  == zeros2(10, 10)
             A1  == setblock(A0, 0, 0, C)
             A2  == setblock(A1, 5, 0, M)
             A3  == setblock(A2, 0, 5, Eye)
             B0  == zeros2(10, 10)
             B1  == setblock(B0, 0, 0, K)
             B2  == setblock(B1, 5, 5, neg(Eye))
         IN  [self |-> [K |-> K, C |-> C, M |-> M, A |-> A3, B |-> B2], exc |-> ""]

\* lines 69-74: the initial state
init_x(r, K, x0) ==
    IF r.exc # "" THEN r
    ELSE IF truth_x0(x0) = "error"
    THEN [self |-> NoAttrs, exc |-> "ValueError: truth value of an array is ambiguous"]
    ELSE IF truth_x0(x0) = "false"
    THEN [self |-> r.self @@ [x |-> zeros1(len(K))], exc |-> ""]
    ELSE IF x0.shape = <<len(K)>>
    THEN [self |-> r.self @@ [x |-> x0], exc |-> ""]
    ELSE [self |-> NoAttrs, exc |-> "ValueError: intial condition"]

\* lines 76-81: the spin speed
init_w(r, w0) ==
    IF r.exc # "" THEN r
    ELSE IF ~truth_w0(w0)
    THEN [self |-> r.self @@ [w |-> 0], exc |-> ""]
    ELSE IF w0.type = "float" /\ w0.val > 0
    THEN [self |-> r.self @@ [w |-> w0.val], exc |-> ""]
    ELSE [self |-> NoAttrs, exc |-> "ValueError: intial spinning speed"]

__init__(K, C, M, x0, w0) == init_w(init_x(init_matrices(K, C, M), K, x0), w0)

----------------------------------------------------------------------------
(* flywheel.lode *)

\* evaluate an array once, so that later reads do not recompute it
Eval(m) == IF m = m THEN m ELSE m

\* the row of the largest |entry| of column k among rows i..n-1 (LAPACK's pivot search)
RECURSIVE pivot_row(_, _, _, _, _)
pivot_row(m, n, k, i, best) ==
    IF i = n THEN best
    ELSE LET a == m[<<i, k>>]
             b == m[<<best, k>>]
         IN  pivot_row(m, n, k, i + 1,
                       IF Abs(a[1]) * b[2] > Abs(b[1]) * a[2] THEN i ELSE best)

\* Gauss-Jordan elimination with row pivoting of the n x 2n tableau m, from column k on
RECURSIVE gauss_jordan(_, _, _)
gauss_jordan(m, n, k) ==
    IF k = n THEN [ok |-> TRUE, m |-> m]
    ELSE LET p == pivot_row(m, n, k, k, k)
         IN  IF m[<<p, k>>][1] = 0 THEN [ok |-> FALSE, m |-> m]
             ELSE LET piv == m[<<p, k>>]
                      \* rows p and k change places, row k is divided by the
                      \* pivot and taken out of every other row
                      el  == Eval([ij \in DOMAIN m |->
                                 IF ij[1] = k THEN FDiv(m[<<p, ij[2]>>], piv)
                                 ELSE LET s == IF ij[1] = p THEN k ELSE ij[1]
                                      IN  IF m[<<s, k>>][1] = 0 THEN m[<<s, ij[2]>>]
                                          ELSE FSub(m[<<s, ij[2]>>],
                                                    FMul(m[<<s, k>>],
                                                         FDiv(m[<<p, ij[2]>>], piv)))])
                  IN  gauss_jordan(el, n, k + 1)

\* np.linalg.inv(A): the inverse, or LinAlgError (ok = FALSE) for a singular matrix
inv(A) ==
    LET n  == A.shape[1]
        t0 == Eval([ij \in (0..n-1) \X (0..2*n-1) |->
                 IF ij[2] < n THEN FInt(A.data[ij])
                 ELSE IF ij[2] - n = ij[1] THEN FInt(1) ELSE FInt(0)])
        r  == gauss_jordan(t0, n, 0)
    IN  IF ~r.ok THEN [ok |-> FALSE]
        ELSE [ok |-> TRUE, shape |-> A.shape,
              data |-> Eval([ij \in (0..n-1) \X (0..n-1) |-> r.m[<<ij[1], ij[2] + n>>]])]

\* sum of g[0], ..., g[k-1]
RECURSIVE FSum(_, _)
FSum(g, k) == IF k = 0 THEN FInt(0) ELSE FAdd(FSum(g, k - 1), g[k - 1])

\* m.dot(v) for a 2-D array m and a 1-D array v of matching length, over floats
dot(m, v) ==
    [shape |-> <<m.shape[1]>>,
     data |-> Eval([i \in 0..m.shape[1]-1 |->
                 FSum([j \in 0..m.shape[2]-1 |-> FMul(m.data[<<i, j>>], v.data[j])],
                      m.shape[2])])]

\* an integer array as a float array
asfloat(a) == [shape |-> a.shape, data |-> [k \in DOMAIN a.data |-> FInt(a.data[k])]]

\* unary minus on a float array
fneg(a) == [shape |-> a.shape, data |-> [k \in DOMAIN a.data |-> FNeg(a.data[k])]]

\* lode without the leading minus sign
lode_unsigned(slf, t, x) ==
    IF "A" \notin DOMAIN slf
    THEN [ret |-> None, exc |-> "AttributeError", self |-> slf, x |-> x]
    ELSE LET Ai == inv(slf.A)
         IN  IF ~Ai.ok
             THEN [ret |-> None, exc |-> "LinAlgError: Singular matrix",
                   self |-> slf, x |-> x]
             ELSE IF x.shape # <<10>>
             THEN [ret |-> None, exc |-> "ValueError: shapes not aligned",
                   self |-> slf, x |-> x]
             ELSE [ret |-> dot(Ai, dot(asfloat(slf.B), asfloat(x))),
                   exc |-> "", self |-> slf, x |-> x]

\* lines 83-90.  The result names the value returned or the exception raised, and
\* the object and the caller's array as the call leaves them.
lode(slf, t, x) ==
    IF "A" \notin DOMAIN slf
    THEN [ret |-> None, exc |-> "AttributeError", self |-> slf, x |-> x]
    ELSE LET Ai == inv(slf.A)
         IN  IF ~Ai.ok
             THEN [ret |-> None, exc |-> "LinAlgError: Singular matrix",
                   self |-> slf, x |-> x]
             ELSE IF x.shape # <<10>>
             THEN [ret |-> None, exc |-> "ValueError: shapes not aligned",
                   self |-> slf, x |-> x]
             ELSE [ret |-> fneg(dot(Ai, dot(asfloat(slf.B), asfloat(x)))),
                   exc |-> "", self |-> slf, x |-> x]

----------------------------------------------------------------------------
(* flywheel.nlode *)

\* m[i, j] exists
InRange(m, i, j) == Len(m.shape) = 2 /\ i < m.shape[1] /\ j < m.shape[2]

\* f[i] as the scalar it contributes to an element of dx: an entry of a 1-D array,
\* the single entry of row i of an (n, 1) array
item(f, i) == IF Len(f.shape) = 1 THEN f.data[i] ELSE f.data[<<i, 0>>]

\* 1 / m * num
accel(m, num) == FMul(FDiv(FInt(1), FInt(m)), FInt(num))

\* nlode_dx5 reading the coupling coefficient of the other tilt axis
nlode_dx5_swapped(slf, x, f) ==
    accel(slf.M.data[<<0, 0>>],
          item(f, 0) - slf.C.data[<<0, 1>>] * slf.w * x.data[6]
                     - slf.K.data[<<0, 0>>] * x.data[0])

\* line 106: dx[5]
nlode_dx5(slf, x, f) ==
    accel(slf.M.data[<<0, 0>>],
          item(f, 0) - slf.C.data[<<1, 0>>] * slf.w * x.data[6]
                     - slf.K.data[<<0, 0>>] * x.data[0])

\* line 107: dx[6]
nlode_dx6(slf, x, f) ==
    accel(slf.M.data[<<1, 1>>],
          item(f, 1) - slf.C.data[<<0, 1>>] * slf.w * x.data[5]
                     - slf.K.data[<<1, 1>>] * x.data[1])

\* nlode_dx789 with the gyroscopic term of line 106 copied into it
nlode_dx789_gyro(slf, x, f, i) ==
    accel(slf.M.data[<<i, i>>],
          item(f, i) - slf.C.data[<<1, 0>>] * slf.w * x.data[6]
                     - slf.K.data[<<i, i>>] * x.data[i])

\* lines 108-110: dx[i + 5] for i = 2, 3, 4
nlode_dx789(slf, x, f, i) ==
    accel(slf.M.data[<<i, i>>], item(f, i) - slf.K.data[<<i, i>>] * x.data[i])

\* the exception lines 100-110 raise, "" for none: x[5..9] is read first, then
\* self.M, then the entries of M, f, C and K
nlode_raises(slf, x, f) ==
    IF Len(x.shape) # 1 \/ len(x) < 10 THEN "IndexError"
    ELSE IF "M" \notin DOMAIN slf THEN "AttributeError"
    ELSE IF \/ ~InRange(slf.M, 4, 4) \/ ~InRange(slf.K, 4, 4)
            \/ ~InRange(slf.C, 1, 0) \/ ~InRange(slf.C, 0, 1)
            \/ len(f) < 5
    THEN "IndexError"
    ELSE ""

\* lines 98-110: the array dx
nlode_dx(slf, x, f) ==
    [shape |-> <<10>>,
     data |-> [i \in 0..9 |->
        IF i < 5 THEN FInt(x.data[i + 5])
        ELSE IF i = 5 THEN nlode_dx5(slf, x, f)
        ELSE IF i = 6 THEN nlode_dx6(slf, x, f)
        ELSE nlode_dx789(slf, x, f, i - 5)]]

\* nlode subtracting the stiffness force from f[0] in place before dx[5] reads it
nlode_accumulating(slf, t, x, f) ==
    IF nlode_raises(slf, x, f) # ""
    THEN [ret |-> None, exc |-> nlode_raises(slf, x, f), self |-> slf, x |-> x, f |-> f]
    ELSE LET head == IF Len(f.shape) = 1 THEN 0 ELSE <<0, 0>>
             g == [f EXCEPT !.data[head] = @ - slf.K.data[<<0, 0>>] * x.data[0]]
             dx == nlode_dx(slf, x, f)
         IN  [ret |-> [dx EXCEPT !.data[5] =
                          accel(slf.M.data[<<0, 0>>],
                                item(g, 0) - slf.C.data[<<1, 0>>] * slf.w * x.data[6])],
              exc |-> "", self |-> slf, x |-> x, f |-> g]

\* lines 92-112.  f is the array bound to the parameter: the caller's, or the shared
\* default.  The result names the value returned or the exception raised, and the
\* object and the two arrays as the call leaves them.
nlode(slf, t, x, f) ==
    IF nlode_raises(slf, x, f) # ""
    THEN [ret |-> None, exc |-> nlode_raises(slf, x, f), self |-> slf, x |-> x, f |-> f]
    ELSE [ret |-> nlode_dx(slf, x, f), exc |-> "", self |-> slf, x |-> x, f |-> f]

----------------------------------------------------------------------------
(* Inputs *)

\* a 5x5 array: diagonal d, [1,0] = p, [0,1] = q, every other [i,j] = r * (i - j)
Mat5(d, p, q, r) ==
    [shape |-> <<5, 5>>,
     data |-> [ij \in (0..4) \X (0..4) |->
        IF ij[1] = ij[2] THEN d[ij[1] + 1]
        ELSE IF ij = <<1, 0>> THEN p
        ELSE IF ij = <<0, 1>> THEN q
        ELSE r * (ij[1] - ij[2])]]

\* 1-D arrays: s at index k and 0 elsewhere; 1, -2, 3, -4, ...
unit(n, k, s) == [shape |-> <<n>>, data |-> [i \in 0..n-1 |-> IF i = k THEN s ELSE 0]]

ramp(n) ==
    [shape |-> <<n>>, data |-> [i \in 0..n-1 |-> IF i % 2 = 0 THEN i + 1 ELSE -(i + 1)]]

\* arrays whose shape is not (5, 5)
BadShaped == {diag(2, 4), diag(3, 1)}

K5Set == {zeros2(5, 5), Mat5(<<1, 2, 3, 4, 5>>, 1, 2, 1)}

C5Set == {zeros2(5, 5), Mat5(<<0, 0, 0, 0, 0>>, 2, -2, 0), Mat5(<<1, 1, 2, 2, 3>>, 1, 3, 1)}

M5Set == {diag(1, 5), Mat5(<<2, 2, 3, 3, 3>>, 1, 0, 0), Mat5(<<2, 3, 1, 1, 2>>, 1, -1, 0),
          Mat5(<<2, 0, 3, 3, 3>>, 0, 0, 0), Mat5(<<1, 1, -2, 0, 1>>, 0, 0, 0)}

X0Set == {None} \cup {zeros1(n) : n \in {1, 4, 5, 10}} \cup {ramp(n) : n \in {1, 4, 5, 10}}

W0Set == {None} \cup {[type |-> "float", val |-> v] : v \in -1..MaxSpin}
                \cup {[type |-> "int", val |-> v] : v \in 0..1}

\* every call of the constructor that is explored
InitArgSet ==
    [K : K5Set \cup BadShaped, C : C5Set \cup BadShaped, M : M5Set \cup BadShaped,
     x0 : X0Set, w0 : W0Set]

\* constructor calls behind the objects whose derivatives are explored: the 5x5
\* ones, one whose shape test fails silently, one whose 1x1 arrays broadcast
OdeArgSet ==
    [K : K5Set, C : C5Set, M : M5Set, x0 : {None},
     w0 : {None} \cup {[type |-> "float", val |-> v] : v \in 1..MaxSpin}]
    \cup [K : {diag(2, 4)}, C : {zeros2(5, 5)}, M : {diag(1, 5)}, x0 : {None}, w0 : {None}]
    \cup [K : {diag(3, 1)}, C : {diag(3, 1)}, M : {diag(3, 1)}, x0 : {None}, w0 : {None}]

LodeArgSet == {a \in OdeArgSet : a.w0 = None}

SharedArgSet ==
    {a \in OdeArgSet :
        /\ a.K # zeros2(5, 5)
        /\ a.M = Mat5(<<2, 2, 3, 3, 3>>, 1, 0, 0) <=> a.w0 = [type |-> "float", val |-> 2]
        /\ a.C.shape = <<5, 5>> => a.C = Mat5(<<0, 0, 0, 0, 0>>, 2, -2, 0)
        /\ a.M.shape = <<5, 5>> => a.M \in {Mat5(<<2, 2, 3, 3, 3>>, 1, 0, 0),
                                           Mat5(<<2, 0, 3, 3, 3>>, 0, 0, 0)}}

\* state vectors handed to nlode: the last one is too short
XSet ==
    {unit(10, k, s) : k \in 0..9, s \in (-1..MaxState) \ {0}}
    \cup {zeros1(10), ramp(10), ramp(5)}

\* state vectors handed to lode
XLodeSet == {unit(10, k, s) : k \in 0..9, s \in 1..MaxState} \cup {ramp(10), ramp(5)}

\* force vectors handed to nlode; None stands for an omitted f; the last one is too short
FSet == {None} \cup {unit(5, k, s) : k \in 0..4, s \in 1..MaxForce} \cup {ramp(5), ramp(3)}

SharedXSet == {ramp(10), unit(10, 6, 1), ramp(5)}

SharedFSet == {None, ramp(5), ramp(3)}

TSet == {0, 1}

SharedTSet == TSet

SharedLodeXSet == {ramp(10), ramp(5)}

----------------------------------------------------------------------------
(* State machine *)

NoArgs == [K |-> None, C |-> None, M |-> None, x0 |-> None, w0 |-> None]

NoCall == [op |-> "none"]

Init ==
    /\ pc = "start"
    /\ args = NoArgs
    /\ self = NoAttrs
    /\ exc = ""
    /\ f_default = zeros2(5, 1)
    /\ call = NoCall
    /\ first = NoCall

\* flywheel(K, C, M, x0, w0)
New(a) ==
    /\ pc = "start"
    /\ \E r \in {__init__(a.K, a.C, a.M, a.x0, a.w0)} :
           /\ args' = a
           /\ self' = r.self
           /\ exc' = r.exc
           /\ pc' = IF r.exc = "" THEN "constructed" ELSE "failed"
    /\ UNCHANGED <<f_default, call, first>>

\* self.lode(t, x)
CallLode(t, x) ==
    /\ pc = "constructed"
    /\ \E r \in {lode(self, t, x)} :
           /\ self' = r.self
           /\ exc' = r.exc
           /\ call' = [op |-> "lode", t |-> t, x |-> x, f |-> None,
                       ret |-> r.ret, exc |-> r.exc,
                       x_after |-> r.x, f_after |-> None]
    /\ UNCHANGED <<pc, args, f_default>>

\* self.nlode(t, x, f), or self.nlode(t, x) when f = None
CallNlode(t, x, f) ==
    /\ pc = "constructed"
    /\ \E r \in {nlode(self, t, x, IF f = None THEN f_default ELSE f)} :
           /\ self' = r.self
           /\ exc' = r.exc
           /\ f_default' = IF f = None THEN r.f ELSE f_default
           /\ call' = [op |-> "nlode", t |-> t, x |-> x, f |-> f,
                       ret |-> r.ret, exc |-> r.exc,
                       x_after |-> r.x, f_after |-> IF f = None THEN None ELSE r.f]
    /\ UNCHANGED <<pc, args>>

\* the constructor on every explored input
Construct == \E a \in InitArgSet : New(a)

Build == \E a \in OdeArgSet : New(a)

BuildLode == \E a \in LodeArgSet : New(a)

BuildShared == \E a \in SharedArgSet : New(a)

\* one evaluation of a derivative on a fresh object
Nlode ==
    /\ call = NoCall
    /\ \E t \in TSet, x \in XSet, f \in FSet : CallNlode(t, x, f)
    /\ UNCHANGED first

Lode ==
    /\ call = NoCall
    /\ \E t \in TSet, x \in XLodeSet : CallLode(t, x)
    /\ UNCHANGED first

\* any sequence of evaluations on one shared object
NlodeShared ==
    /\ \E t \in SharedTSet, x \in SharedXSet, f \in SharedFSet : CallNlode(t, x, f)
    /\ first' = IF first = NoCall THEN call' ELSE first

LodeShared ==
    /\ \E t \in SharedTSet, x \in SharedLodeXSet : CallLode(t, x)
    /\ first' = IF first = NoCall THEN call' ELSE first

NextConstruct == Construct

NextNlode == Build \/ Nlode

NextLode == BuildLode \/ Lode

NextShared == BuildShared \/ LodeShared \/ NlodeShared

SpecConstruct == Init /\ [][NextConstruct]_vars

SpecNlode == Init /\ [][NextNlode]_vars

SpecLode == Init /\ [][NextLode]_vars

SpecShared == Init /\ [][NextShared]_vars

----------------------------------------------------------------------------
(* Claims about the constructor, checked under SpecConstruct *)

Constructed == pc = "constructed"

Failed == pc = "failed"

\* K, C and M are all 5x5
AllFiveByFive(a) ==
    a.K.shape = <<5, 5>> /\ a.C.shape = <<5, 5>> /\ a.M.shape = <<5, 5>>

\* the exceptions of the model that are Python ValueErrors
ValueErrors ==
    {"ValueError: the input K-C-M parameters should have the same dimension 5X5",
     "ValueError: could not broadcast",
     "ValueError: truth value of an array is ambiguous",
     "ValueError: intial condition",
     "ValueError: intial spinning speed",
     "ValueError: shapes not aligned"}

\* C1: whenever K, C, M are not all 5x5 (which includes every triple of unequal
\* shapes), the constructor fails with a ValueError and no object comes to exist.
C1_BadShapeFails ==
    (pc # "start" /\ ~AllFiveByFive(args)) => (Failed /\ exc \in ValueErrors)

\* C2: for 5x5 K, C, M with x0 and w0 omitted the constructor succeeds, and A is
\* the block matrix [C I; M 0] and B the block matrix [K 0; 0 -I].
C2_BlockStructure ==
    (pc # "start" /\ AllFiveByFive(args) /\ args.x0 = None /\ args.w0 = None) =>
        /\ Constructed
        /\ self.A.shape = <<10, 10>>
        /\ self.B.shape = <<10, 10>>
        /\ \A i \in 0..4, j \in 0..4 :
            /\ self.A.data[<<i, j>>] = args.C.data[<<i, j>>]
            /\ self.A.data[<<5 + i, j>>] = args.M.data[<<i, j>>]
            /\ self.A.data[<<i, 5 + j>>] = (IF i = j THEN 1 ELSE 0)
            /\ self.A.data[<<5 + i, 5 + j>>] = 0
            /\ self.B.data[<<i, j>>] = args.K.data[<<i, j>>]
            /\ self.B.data[<<5 + i, 5 + j>>] = (IF i = j THEN -1 ELSE 0)
            /\ self.B.data[<<i, 5 + j>>] = 0
            /\ self.B.data[<<5 + i, j>>] = 0

\* C2 witness: an object built from three different 5x5 arrays, none symmetric
\* but M, with x0 and w0 omitted
C2_Witness ==
    /\ Constructed
    /\ args.x0 = None /\ args.w0 = None
    /\ args.K = Mat5(<<1, 2, 3, 4, 5>>, 1, 2, 1)
    /\ args.C = Mat5(<<1, 1, 2, 2, 3>>, 1, 3, 1)
    /\ args.M = Mat5(<<2, 2, 3, 3, 3>>, 1, 0, 0)

\* C4: for 5x5 K, C, M and a supplied x0 (w0 omitted), the constructor succeeds
\* exactly when x0 has the 10 elements of the state, and then x = x0; every other
\* length fails with the initial-condition ValueError.
C4_SuppliedInitialState ==
    (pc # "start" /\ AllFiveByFive(args) /\ args.x0 # None /\ args.w0 = None) =>
        IF len(args.x0) = 10
        THEN Constructed /\ self.x = args.x0
        ELSE Failed /\ exc = "ValueError: intial condition"

\* C5: for 5x5 K, C, M (x0 omitted): w0 omitted gives w = 0, a supplied positive
\* float gives w = w0, and a supplied float that is zero or negative fails with
\* the spin-speed ValueError.
C5_SpinSpeed ==
    (pc # "start" /\ AllFiveByFive(args) /\ args.x0 = None) =>
        IF args.w0 = None THEN Constructed /\ self.w = 0
        ELSE (args.w0.type = "float") =>
                IF args.w0.val > 0
                THEN Constructed /\ self.w = args.w0.val
                ELSE Failed /\ exc = "ValueError: intial spinning speed"

\* C10: for 5x5 K, C, M with x0 (and w0) omitted, the stored state is the zero
\* vector of the 10 elements that lode and nlode read.
C10_DefaultStateHasTenElements ==
    (pc # "start" /\ AllFiveByFive(args) /\ args.x0 = None /\ args.w0 = None) =>
        Constructed /\ self.x = zeros1(10)

----------------------------------------------------------------------------
(* Claims about nlode, checked under SpecNlode *)

\* the float q is the quotient num / den
IsQuotient(q, num, den) == q[2] # 0 /\ q[1] * den = num * q[2]

\* the entry of the force vector the last call read: 0 when f was omitted
ForceAt(i) == IF call.f = None THEN 0 ELSE call.f.data[i]

\* the last call was nlode on an object with 5x5 K, C, M, with a 10-element x and
\* a 5-element or omitted f
WellFormedNlode ==
    /\ call.op = "nlode"
    /\ "M" \in DOMAIN self
    /\ AllFiveByFive(self)
    /\ call.x.shape = <<10>>
    /\ call.f = None \/ call.f.shape = <<5>>

NonzeroInertia == \A i \in 0..4 : self.M.data[<<i, i>>] # 0

\* C3: with nonzero M[i,i], nlode returns the 10 elements dx[i] = x[5+i],
\* dx[5] = (f[0] - C[1,0] w x[6] - K[0,0] x[0]) / M[0,0],
\* dx[6] = (f[1] - C[0,1] w x[5] - K[1,1] x[1]) / M[1,1] and
\* dx[5+i] = (f[i] - K[i,i] x[i]) / M[i,i] for i = 2..4; with w = 0 and f = 0 that
\* is -K[i,i] x[i] / M[i,i]; and another time argument returns the same.
C3_NlodeFormula ==
    (WellFormedNlode /\ NonzeroInertia) =>
        LET K  == self.K.data
            C  == self.C.data
            M  == self.M.data
            x  == call.x.data
            dx == call.ret.data
        IN  /\ call.exc = ""
            /\ call.ret.shape = <<10>>
            /\ \A i \in 0..4 : dx[i] = <<x[5 + i], 1>>
            /\ IsQuotient(dx[5], ForceAt(0) - C[<<1, 0>>] * self.w * x[6]
                                            - K[<<0, 0>>] * x[0], M[<<0, 0>>])
            /\ IsQuotient(dx[6], ForceAt(1) - C[<<0, 1>>] * self.w * x[5]
                                            - K[<<1, 1>>] * x[1], M[<<1, 1>>])
            /\ \A i \in 2..4 :
                 IsQuotient(dx[5 + i], ForceAt(i) - K[<<i, i>>] * x[i], M[<<i, i>>])
            /\ (self.w = 0 /\ \A i \in 0..4 : ForceAt(i) = 0) =>
                 \A i \in 0..4 : IsQuotient(dx[5 + i], -(K[<<i, i>>] * x[i]), M[<<i, i>>])
            /\ nlode(self, 1 - call.t, call.x,
                     IF call.f = None THEN f_default ELSE call.f).ret = call.ret

\* C3 witness: nlode has returned for a spinning rotor with a coupling coefficient,
\* an inertia other than 1, a tilt rate x[6] and a supplied force
C3_Witness ==
    /\ WellFormedNlode /\ NonzeroInertia
    /\ call.exc = ""
    /\ self.w > 0
    /\ self.C.data[<<1, 0>>] # 0
    /\ self.M.data[<<0, 0>>] > 1
    /\ call.x.data[6] # 0
    /\ call.f # None

\* C6: when some M[i,i] is zero, a call of nlode with a 10-element x and a
\* 5-element or omitted f raises a division-by-zero error and returns nothing.
C6_ZeroInertiaRaises ==
    (WellFormedNlode /\ ~NonzeroInertia) =>
        (call.exc = "ZeroDivisionError" /\ call.ret = None)

\* C8: a model that differs only in its spin speed w2 returns, for the same x and
\* f, the same dx[0..4] and dx[7..9]; dx[5] differs by -C[1,0] (w - w2) x[6] / M[0,0]
\* and dx[6] by -C[0,1] (w - w2) x[5] / M[1,1].
C8_SpinChangesTiltAxesOnly ==
    (WellFormedNlode /\ NonzeroInertia) =>
        \A w2 \in 0..MaxSpin :
            \A other \in {nlode([self EXCEPT !.w = w2], call.t, call.x,
                               IF call.f = None THEN f_default ELSE call.f)} :
                LET C  == self.C.data
                    M  == self.M.data
                    x  == call.x.data
                    d1 == call.ret.data
                    d2 == other.ret.data
                IN  /\ call.exc = "" /\ other.exc = ""
                    /\ \A i \in (0..4) \cup (7..9) : d1[i] = d2[i]
                    /\ d1[5][2] # 0 /\ d2[5][2] # 0
                    /\ (d1[5][1] * d2[5][2] - d2[5][1] * d1[5][2]) * M[<<0, 0>>]
                         = -(C[<<1, 0>>] * (self.w - w2) * x[6]) * d1[5][2] * d2[5][2]
                    /\ d1[6][2] # 0 /\ d2[6][2] # 0
                    /\ (d1[6][1] * d2[6][2] - d2[6][1] * d1[6][2]) * M[<<1, 1>>]
                         = -(C[<<0, 1>>] * (self.w - w2) * x[5]) * d1[6][2] * d2[6][2]

\* C8 witness: nlode has returned for a spinning rotor whose dx[5] depends on the
\* spin speed, with a translation x[2] that dx[7] depends on
C8_Witness ==
    /\ WellFormedNlode /\ NonzeroInertia
    /\ call.exc = ""
    /\ self.w = MaxSpin
    /\ self.C.data[<<1, 0>>] # 0
    /\ call.x = ramp(10)
    /\ nlode([self EXCEPT !.w = 0], call.t, call.x, f_default).ret # call.ret

----------------------------------------------------------------------------
(* Claim about lode, checked under SpecLode *)

\* a x1 + b x2
lincomb(a, x1, b, x2) ==
    [shape |-> x1.shape, data |-> [i \in DOMAIN x1.data |-> a * x1.data[i] + b * x2.data[i]]]

Scalars == {-1, 2}

\* M is the direct sum of its leading 2x2 block and a diagonal, with a nonzero
\* determinant: M is invertible, and with it A = [C I; M 0]
InvertibleA ==
    /\ "M" \in DOMAIN self
    /\ AllFiveByFive(self)
    /\ \A i \in 0..4, j \in 0..4 :
         (i # j /\ <<i, j>> \notin {<<1, 0>>, <<0, 1>>}) => self.M.data[<<i, j>>] = 0
    /\ self.M.data[<<0, 0>>] * self.M.data[<<1, 1>>]
         # self.M.data[<<1, 0>>] * self.M.data[<<0, 1>>]
    /\ \A i \in 2..4 : self.M.data[<<i, i>>] # 0

\* C9: for invertible A, lode returns the dx with A dx = -(B x), and
\* lode(t, a x1 + b x2) = a lode(t', x1) + b lode(t'', x2) for all times.
C9_LodeSolvesAndIsLinear ==
    (call.op = "lode" /\ InvertibleA /\ call.x.shape = <<10>>) =>
        LET A  == self.A.data
            B  == self.B.data
            x  == call.x.data
            dx == call.ret.data
        IN  /\ call.exc = ""
            /\ call.ret.shape = <<10>>
            /\ \A i \in 0..9 :
                 FSum([j \in 0..9 |-> FMul(FInt(A[<<i, j>>]), dx[j])], 10)
                   = FNeg(FSum([j \in 0..9 |-> FInt(B[<<i, j>>] * x[j])], 10))
            /\ \A x2 \in {ramp(10), unit(10, 7, 1)} :
                 \A r2 \in {lode(self, call.t, x2)} :
                   \A a \in Scalars, b \in Scalars :
                     lode(self, 1 - call.t, lincomb(a, call.x, b, x2)).ret.data
                       = [i \in 0..9 |->
                            FAdd(FMul(FInt(a), dx[i]), FMul(FInt(b), r2.ret.data[i]))]

\* C9 witness: lode has returned a nonzero derivative for a rotor with damping,
\* stiffness and an inertia matrix that is not triangular
C9_Witness ==
    /\ call.op = "lode" /\ InvertibleA
    /\ call.exc = ""
    /\ self.M.data[<<0, 1>>] # 0
    /\ self.C # zeros2(5, 5)
    /\ self.K # zeros2(5, 5)
    /\ \E i \in 5..9 : call.ret.data[i][1] # 0

----------------------------------------------------------------------------
(* Claim about sequences of calls on one object, checked under SpecShared *)

\* C7: whatever calls of lode and nlode have been made, the object's attributes
\* are those the constructor set, the shared default f is still zero, the last
\* call left the caller's x and f as they were, and a call with the arguments of
\* the first call ends as the first call did.
C7_CallsArePure ==
    Constructed =>
        /\ self = __init__(args.K, args.C, args.M, args.x0, args.w0).self
        /\ f_default = zeros2(5, 1)
        /\ call # NoCall =>
             /\ call.x_after = call.x
             /\ call.f_after = call.f
        /\ (call # NoCall /\ call.op = first.op /\ call.x = first.x /\ call.f = first.f) =>
             (call.ret = first.ret /\ call.exc = first.exc)

\* C7 witness: nlode relying on the default f returned first, and a later call
\* of lode has returned too
C7_Witness ==
    /\ Constructed
    /\ first # NoCall /\ first.op = "nlode" /\ first.f = None /\ first.exc = ""
    /\ call.op = "lode" /\ call.exc = ""

====
